---- MODULE Spec2Model ----
(***************************************************************************)
(* LanguagePicker (src/components/LanguagePicker.tsx): the locale display  *)
(* name resolver, the ranking by approval progress, the text filter and    *)
(* the dropdown interaction (filter input, first-item ref, item click).    *)
(*                                                                         *)
(* Strings are sequences of one-character strings, so that toLowerCase,    *)
(* concatenation and includes are computed and not assumed.  The value     *)
(* `undefined` of JavaScript is the one-element sequence Undefined, which  *)
(* no string of the model equals.                                          *)
(***************************************************************************)
EXTENDS Integers, Sequences, FiniteSets, TLC

VARIABLES
    locales,        \* router.locales: the supported locale codes
    locale,         \* router.locale: the viewer's active locale
    asPath,         \* router.asPath: the current path
    i18nConfig,     \* i18n.config.json: entries code/name/localName/crowdinCode
    progressData,   \* translationProgress.json: entries languageId/approvalProgress
    translations,   \* the "page-languages" bundles behind t(): <<viewer, key, value>>
    intlNames,      \* Intl.DisplayNames: [viewer, subject] -> name, subject or undefined
    handleClose,    \* whether the caller passed the handleClose prop
    status,         \* "unmounted", "rendered", or "error" (a render threw)
    error,          \* which error the last render threw: "none", "config", "name"
    attempts,       \* the values the map callback computed, up to the first throw
    displayNames,   \* the sorted records of the last render
    filteredNames,  \* the filtered records of the last render
    filterValue,    \* useState(""): the filter text
    firstItemRef,   \* firstItemRef.current: the localeChoice of the Item holding it
    isOpen,         \* the Menu's disclosure state
    focus,          \* where the keyboard focus is: "none", "input", "item"
    lastEvent,      \* the handler that ran last
    calls           \* what the last handler called: navigation, handleClose, onClose

env == <<locales, asPath, i18nConfig, progressData, translations, intlNames,
         handleClose>>
view == <<status, error, attempts, displayNames, filteredNames, firstItemRef>>
vars == <<env, locale, view, filterValue, isOpen, focus, lastEvent, calls>>

-----------------------------------------------------------------------------
(* Bounds of the model *)

MaxLocales == 3
MaxFilterLen == 2

-----------------------------------------------------------------------------
(* Strings *)

Undefined == <<"undefined">>

UpperChars == <<"A","B","C","D","E","F","G","H","I","J","K","L","M",
                "N","O","P","Q","R","S","T","U","V","W","X","Y","Z">>
LowerChars == <<"a","b","c","d","e","f","g","h","i","j","k","l","m",
                "n","o","p","q","r","s","t","u","v","w","x","y","z">>

ToLower ==
    [c \in {UpperChars[i] : i \in 1..Len(UpperChars)} |->
        LowerChars[CHOOSE i \in 1..Len(UpperChars) : UpperChars[i] = c]]

LowerChar(c) == IF c \in DOMAIN ToLower THEN ToLower[c] ELSE c

toLowerCase(s) == [i \in 1..Len(s) |-> LowerChar(s[i])]

includes(s, f) ==
    \E i \in 0..(Len(s) - Len(f)) : SubSeq(s, i + 1, i + Len(f)) = f

\* JavaScript truthiness of a string-or-undefined value
Falsy(x) == x = Undefined \/ x = <<>>

-----------------------------------------------------------------------------
(* The external data the component reads *)

en == <<"e","n">>
es == <<"e","s">>
zH == <<"z","H">>
Codes == {en, es, zH}

DEFAULT_LOCALE == en

\* t(key) of next-i18next: the translation, or the key itself when there is none
t(viewer, key) ==
    IF \E e \in translations : e[1] = viewer /\ e[2] = key
    THEN (CHOOSE e \in translations : e[1] = viewer /\ e[2] = key)[3]
    ELSE key

\* new Intl.DisplayNames([viewer], {type: "language"}).of(subject)
DisplayNamesOf(viewer, subject) == intlNames[<<viewer, subject>>]

\* Array.prototype.find as the index of the first match, 0 when there is none
i18nConfigIndex(localeChoice) ==
    IF \E i \in 1..Len(i18nConfig) : i18nConfig[i].code = localeChoice
    THEN CHOOSE i \in 1..Len(i18nConfig) :
            /\ i18nConfig[i].code = localeChoice
            /\ \A j \in 1..(i - 1) : i18nConfig[j].code # localeChoice
    ELSE 0

dataItemIndex(crowdinCode) ==
    IF \E i \in 1..Len(progressData) : progressData[i].languageId = crowdinCode
    THEN CHOOSE i \in 1..Len(progressData) :
            /\ progressData[i].languageId = crowdinCode
            /\ \A j \in 1..(i - 1) : progressData[j].languageId # crowdinCode
    ELSE 0

-----------------------------------------------------------------------------
(* The resolver: the callback of locales.map *)

LanguagePrefix == <<"l","a","n","g","u","a","g","e","-">>

i18nKey(localeChoice) == LanguagePrefix \o toLowerCase(localeChoice)

fallbackSource(viewer, localeChoice, i18nConfigItem) ==
    LET intlSource == DisplayNamesOf(viewer, localeChoice)
    IN  IF intlSource # localeChoice THEN intlSource ELSE i18nConfigItem.name

source(viewer, localeChoice, i18nConfigItem) ==
    LET i18nSource == t(viewer, i18nKey(localeChoice))
    IN  IF i18nSource = i18nKey(localeChoice)
        THEN fallbackSource(viewer, localeChoice, i18nConfigItem)
        ELSE i18nSource

target(localeChoice, i18nConfigItem) ==
    LET fallbackTarget == DisplayNamesOf(localeChoice, localeChoice)
        i18nConfigTarget == i18nConfigItem.localName
    IN  IF Falsy(i18nConfigTarget) THEN fallbackTarget ELSE i18nConfigTarget

approvalProgressSwapped(localeChoice, i18nConfigItem) ==
    LET d == dataItemIndex(i18nConfigItem.crowdinCode)
    IN  IF d = 0 \/ progressData[d].approvalProgress = 0
        THEN (IF localeChoice = DEFAULT_LOCALE THEN 0 ELSE 100)
        ELSE progressData[d].approvalProgress

\* dataItem?.approvalProgress || (localeChoice === DEFAULT_LOCALE ? 100 : 0)
approvalProgress(localeChoice, i18nConfigItem) ==
    LET d == dataItemIndex(i18nConfigItem.crowdinCode)
    IN  IF d = 0 \/ progressData[d].approvalProgress = 0
        THEN (IF localeChoice = DEFAULT_LOCALE THEN 100 ELSE 0)
        ELSE progressData[d].approvalProgress

Thrown(kind, localeChoice) ==
    [localeChoice |-> localeChoice, error |-> kind, source |-> Undefined,
     target |-> Undefined, approvalProgress |-> 0]

LocaleDisplayInfoUnchecked(viewer, localeChoice) ==
    LET c == i18nConfigIndex(localeChoice)
    IN  IF c = 0 THEN Thrown("config", localeChoice)
        ELSE [localeChoice |-> localeChoice, error |-> "none",
              source |-> source(viewer, localeChoice, i18nConfig[c]),
              target |-> target(localeChoice, i18nConfig[c]),
              approvalProgress |-> approvalProgress(localeChoice, i18nConfig[c])]

\* One call of the map callback: the record, or the error it throws.  A
\* thrown "name" error keeps the source and target computed before the throw.
LocaleDisplayInfo(viewer, localeChoice) ==
    LET c == i18nConfigIndex(localeChoice)
    IN  IF c = 0 THEN Thrown("config", localeChoice)
        ELSE LET item == i18nConfig[c]
                 s == source(viewer, localeChoice, item)
                 g == target(localeChoice, item)
             IN  IF Falsy(s) \/ Falsy(g)
                 THEN [localeChoice |-> localeChoice, error |-> "name",
                       source |-> s, target |-> g, approvalProgress |-> 0]
                 ELSE [localeChoice |-> localeChoice, error |-> "none",
                       source |-> s, target |-> g,
                       approvalProgress |-> approvalProgress(localeChoice, item)]

\* The callback applied to the locales in order; a throw ends the map
Mapped(viewer) ==
    LET all == [i \in 1..Len(locales) |-> LocaleDisplayInfo(viewer, locales[i])]
        bad == {i \in 1..Len(all) : all[i].error # "none"}
    IN  IF bad = {} THEN all
        ELSE SubSeq(all, 1, CHOOSE i \in bad : \A j \in bad : i <= j)

Record(a) ==
    [localeChoice |-> a.localeChoice, source |-> a.source, target |-> a.target,
     approvalProgress |-> a.approvalProgress]

-----------------------------------------------------------------------------
(* The ranker: .sort((a, b) => b.approvalProgress - a.approvalProgress) *)

compareFnTieBreaks(a, b) ==
    IF b.approvalProgress >= a.approvalProgress THEN 1 ELSE -1

compareFn(a, b) == b.approvalProgress - a.approvalProgress

\* x goes after every element that the comparator does not put behind it
insert(sorted, x) ==
    LET p == Cardinality({i \in 1..Len(sorted) : compareFn(sorted[i], x) <= 0})
    IN  SubSeq(sorted, 1, p) \o <<x>> \o SubSeq(sorted, p + 1, Len(sorted))

RECURSIVE sort(_)
\* Array.prototype.sort is stable (ECMAScript 2019)
sort(list) ==
    IF list = <<>> THEN <<>>
    ELSE insert(sort(SubSeq(list, 1, Len(list) - 1)), list[Len(list)])

-----------------------------------------------------------------------------
(* The filter: displayNames.filter(...) *)

passesFilterRawFilter(r, f) ==
    includes(toLowerCase(r.localeChoice \o r.source \o r.target), f)

passesFilter(r, f) ==
    includes(toLowerCase(r.localeChoice \o r.source \o r.target), toLowerCase(f))

filter(names, f) ==
    LET Test(r) == passesFilter(r, f) IN SelectSeq(names, Test)

-----------------------------------------------------------------------------
(* One render and its commit *)

Threw(mapped) ==
    \E i \in 1..Len(mapped) : mapped[i].error # "none"

sortedNames(mapped) ==
    IF Threw(mapped) THEN <<>>
    ELSE sort([i \in 1..Len(mapped) |-> Record(mapped[i])])

firstItemRefKept(names, open) ==
    IF ~open THEN Undefined
    ELSE IF firstItemRef # Undefined THEN firstItemRef
    ELSE IF names # <<>> THEN names[1].localeChoice ELSE Undefined

\* ref={firstResult ? firstItemRef : null} on the items of the open, lazy
\* MenuList: React clears the ref of an unmounted item, then sets the new one
firstItemRefCurrent(names, open) ==
    IF open /\ names # <<>> THEN names[1].localeChoice ELSE Undefined

closeOnSelectDefault == TRUE

closeOnSelect == FALSE

\* The state the component shows after rendering with viewer, text and
\* disclosure state; a render that throws unmounts the component
Commit(viewer, text, open) ==
    LET m == Mapped(viewer)
        threw == Threw(m)
        ranked == sortedNames(m)
        names == filter(ranked, text)
    IN  /\ status' = IF threw THEN "error" ELSE "rendered"
        /\ error' = IF threw THEN m[Len(m)].error ELSE "none"
        /\ attempts' = m
        /\ displayNames' = ranked
        /\ filteredNames' = names
        /\ firstItemRef' = firstItemRefCurrent(names, open /\ ~threw)
        /\ isOpen' = (open /\ ~threw)

NoCalls == [navigate |-> <<>>, handleClose |-> 0, onClose |-> 0]

-----------------------------------------------------------------------------
(* The data of the model *)

ConfigName(c) ==
    CASE c = en -> <<"E","n","g">> [] c = es -> <<"S","p","a">>
      [] OTHER -> <<"C","h","i">>
LocalName(c) ==
    CASE c = en -> <<"E","n","g">> [] c = es -> <<"E","s","p">>
      [] OTHER -> <<"Z","h","o">>
PlatformName(c) ==
    CASE c = en -> <<"A","n","g">> [] c = es -> <<"C","a","s">>
      [] OTHER -> <<"M","a","n">>
TranslatedName(c) ==
    CASE c = en -> <<"I","n","g">> [] c = es -> <<"H","s","p">>
      [] OTHER -> <<"K","i","n">>
CrowdinCode(c) ==
    CASE c = en -> <<"e","n">> [] c = es -> <<"e","s","-","E","M">>
      [] OTHER -> <<"z","h","-","C","N">>

CodeOrder == <<en, es, zH>>

ConfigEntry(c, name, localName) ==
    [code |-> c, name |-> name, localName |-> localName,
     crowdinCode |-> CrowdinCode(c)]

RECURSIVE Concat(_)
Concat(ss) == IF ss = <<>> THEN <<>> ELSE Head(ss) \o Concat(Tail(ss))

\* cfg[c] is "missing" or <<name, localName>>
ConfigOf(cfg) ==
    Concat([i \in 1..Len(CodeOrder) |->
              IF cfg[CodeOrder[i]] = <<"missing">> THEN <<>>
              ELSE <<ConfigEntry(CodeOrder[i], cfg[CodeOrder[i]][1],
                                 cfg[CodeOrder[i]][2])>>])

\* prog[c] is -1 (no entry) or the entry's approvalProgress
ProgressOf(prog) ==
    Concat([i \in 1..Len(CodeOrder) |->
              IF prog[CodeOrder[i]] = -1 THEN <<>>
              ELSE <<[languageId |-> CrowdinCode(CodeOrder[i]),
                      approvalProgress |-> prog[CodeOrder[i]]]>>])

ProgressChoices == {-1, 0, 40, 100}

StandardConfig == [c \in Codes |-> <<ConfigName(c), LocalName(c)>>]
StandardIntl == [p \in Codes \X Codes |-> PlatformName(p[2])]

\* The lists of distinct supported locale codes
LocaleLists ==
    {l \in UNION {[1..n -> Codes] : n \in 0..MaxLocales} :
        \A i, j \in 1..Len(l) : i # j => l[i] # l[j]}

FilterChars == {"e", "S", "x"}
\* What one edit of the input makes of its text: a character typed at the
\* end, the last character deleted, or the whole text cleared
Edits(text) ==
    {text \o <<c>> : c \in IF Len(text) < MaxFilterLen THEN FilterChars ELSE {}}
        \cup (IF text = <<>> THEN {} ELSE {SubSeq(text, 1, Len(text) - 1), <<>>})

Paths == {<<"/">>, <<"/", "a">>}

Unrendered ==
    /\ status = "unmounted"
    /\ error = "none"
    /\ attempts = <<>>
    /\ displayNames = <<>>
    /\ filteredNames = <<>>
    /\ filterValue = <<>>
    /\ firstItemRef = Undefined
    /\ isOpen = FALSE
    /\ focus = "none"
    /\ lastEvent = "none"
    /\ calls = NoCalls

\* One locale with every combination of configuration, progress entry,
\* translation and platform name; the other locales are fully configured
InitNames ==
    \E f \in Codes, viewer \in {en, es} :
    \E cfg \in {<<"missing">>} \cup ({<<>>, ConfigName(f)} \X {<<>>, LocalName(f)}),
       prog \in ProgressChoices,
       tr \in {<<"absent">>, <<>>, TranslatedName(f)},
       intlS \in {f, PlatformName(f), Undefined},
       intlT \in {f, PlatformName(f), Undefined} :
        /\ locales \in LocaleLists
        /\ locale = viewer
        /\ asPath = <<"/">>
        /\ i18nConfig = ConfigOf([StandardConfig EXCEPT ![f] = cfg])
        /\ progressData = ProgressOf([c \in Codes |-> IF c = f THEN prog ELSE 40])
        /\ translations = IF tr = <<"absent">> THEN {}
                          ELSE {<<viewer, LanguagePrefix \o toLowerCase(f), tr>>}
        /\ intlNames = [p \in Codes \X Codes |->
                          IF p = <<f, f>> THEN intlT
                          ELSE IF p = <<viewer, f>> THEN intlS
                          ELSE PlatformName(p[2])]
        /\ handleClose = FALSE
        /\ Unrendered

\* Fully configured locales with every combination of progress entries
InitProgress ==
    \E prog \in [Codes -> ProgressChoices] :
        /\ locales \in LocaleLists
        /\ locale = en
        /\ asPath = <<"/">>
        /\ i18nConfig = ConfigOf(StandardConfig)
        /\ progressData = ProgressOf(prog)
        /\ translations = {}
        /\ intlNames = StandardIntl
        /\ handleClose = FALSE
        /\ Unrendered

InitResolve == InitNames \/ InitProgress

\* The first render of the component
Mount ==
    /\ status = "unmounted"
    /\ Commit(locale, filterValue, FALSE)
    /\ lastEvent' = "mount"
    /\ calls' = NoCalls
    /\ UNCHANGED <<env, locale, filterValue, focus>>

SpecResolve == InitResolve /\ [][Mount]_vars

-----------------------------------------------------------------------------
(* The dropdown: Menu, filter input and items *)

\* A supported-locales list viewed from its first locale, with en at 100
\* and a tie between es and zH; under the second translation bundle the
\* render with viewer es resolves an empty source for en and throws
InitMenu ==
    \E tr \in {{}, {<<es, LanguagePrefix \o en, <<>> >>}} :
        /\ locales \in LocaleLists
        /\ locale = IF locales = <<>> THEN DEFAULT_LOCALE ELSE locales[1]
        /\ asPath \in Paths
        /\ i18nConfig = ConfigOf(StandardConfig)
        /\ progressData = ProgressOf([c \in Codes |-> IF c = en THEN -1 ELSE 40])
        /\ translations = tr
        /\ intlNames = StandardIntl
        /\ handleClose \in BOOLEAN
        /\ Unrendered

\* The menu button among the children opens the Menu; the lazy MenuList
\* mounts its items and initialFocusRef focuses the filter input
Open ==
    /\ status = "rendered"
    /\ ~isOpen
    /\ Commit(locale, filterValue, TRUE)
    /\ focus' = "input"
    /\ lastEvent' = "open"
    /\ calls' = NoCalls
    /\ UNCHANGED <<env, locale, filterValue>>

\* The Menu closes itself on an outside click or Escape
Dismiss ==
    /\ status = "rendered"
    /\ isOpen
    /\ Commit(locale, filterValue, FALSE)
    /\ focus' = "none"
    /\ lastEvent' = "dismiss"
    /\ calls' = NoCalls
    /\ UNCHANGED <<env, locale, filterValue>>

\* Input onChange: setFilterValue(e.target.value) and the render it causes
SetFilter(text) ==
    /\ status = "rendered"
    /\ isOpen
    /\ focus = "input"
    /\ text \in Edits(filterValue)
    /\ filterValue' = text
    /\ Commit(locale, text, isOpen)
    /\ lastEvent' = "change"
    /\ calls' = NoCalls
    /\ UNCHANGED <<env, locale, focus>>

\* The MenuItem around the input takes focus and hands it to the input, or
\* the user clicks into the input
FocusInput ==
    /\ status = "rendered"
    /\ isOpen
    /\ focus # "input"
    /\ focus' = "input"
    /\ lastEvent' = "focus"
    /\ calls' = NoCalls
    /\ UNCHANGED <<env, locale, view, filterValue, isOpen>>

\* The Menu's own handling of a selected MenuItem: it closes the menu only
\* when closeOnSelect is set
MenuSelect ==
    /\ status = "rendered"
    /\ isOpen
    /\ Commit(locale, filterValue, ~closeOnSelect)
    /\ focus' = IF closeOnSelect THEN "none" ELSE focus
    /\ lastEvent' = "select"
    /\ calls' = NoCalls
    /\ UNCHANGED <<env, locale, filterValue>>

onMenuCloseBoth ==
    [handleClose |-> IF handleClose THEN 1 ELSE 0, onClose |-> 1]

\* handleClose ? handleClose() : onClose()
onMenuClose ==
    [handleClose |-> IF handleClose THEN 1 ELSE 0,
     onClose |-> IF handleClose THEN 0 ELSE 1]

\* The link of the item: the router goes to href under the item's locale
Navigate(localeChoice) == <<asPath, localeChoice>>

\* A click on the Item of localeChoice: the link navigates, onClick runs
\* onMenuClose, and the Menu closes once more if closeOnSelect is set.  What
\* the caller's handleClose does to the Menu is the caller's choice.
Click(localeChoice, event) ==
    \E callerCloses \in BOOLEAN :
        LET closes == onMenuClose.onClose + (IF closeOnSelect THEN 1 ELSE 0)
            open == IF closes > 0 THEN FALSE
                    ELSE IF onMenuClose.handleClose > 0 THEN ~callerCloses
                    ELSE TRUE
        IN  /\ closes > 0 => callerCloses
            /\ calls' = [navigate |-> <<Navigate(localeChoice)>>,
                         handleClose |-> onMenuClose.handleClose,
                         onClose |-> closes]
            /\ locale' = Navigate(localeChoice)[2]
            /\ Commit(Navigate(localeChoice)[2], filterValue, open)
            /\ focus' = IF isOpen' THEN "item" ELSE "none"
            /\ lastEvent' = event
            /\ UNCHANGED <<env, filterValue>>

\* A click on the i-th rendered item
ItemClick(i) ==
    /\ status = "rendered"
    /\ isOpen
    /\ i \in 1..Len(filteredNames)
    /\ Click(filteredNames[i].localeChoice, "click")

\* Input onKeyDown with Enter: firstItemRef.current?.click()
KeyDownEnter ==
    /\ status = "rendered"
    /\ isOpen
    /\ focus = "input"
    /\ IF firstItemRef # Undefined
       THEN Click(firstItemRef, "enter")
       ELSE /\ lastEvent' = "enter"
            /\ calls' = NoCalls
            /\ UNCHANGED <<env, locale, view, filterValue, isOpen, focus>>

\* Input onKeyDown with ArrowDown: firstItemRef.current?.focus()
KeyDownArrowDown ==
    /\ status = "rendered"
    /\ isOpen
    /\ focus = "input"
    /\ focus' = IF firstItemRef # Undefined THEN "item" ELSE focus
    /\ lastEvent' = "arrowDown"
    /\ calls' = NoCalls
    /\ UNCHANGED <<env, locale, view, filterValue, isOpen>>

Next ==
    \/ Mount
    \/ Open
    \/ Dismiss
    \/ \E text \in Edits(filterValue) : SetFilter(text)
    \/ FocusInput
    \/ MenuSelect
    \/ \E i \in 1..MaxLocales : ItemClick(i)
    \/ KeyDownEnter
    \/ KeyDownArrowDown

Spec == InitMenu /\ [][Next]_vars

-----------------------------------------------------------------------------
(* Properties of the resolver and the ranker *)

ConfigEntries(localeChoice) ==
    {i18nConfig[i] : i \in {j \in 1..Len(i18nConfig) :
                               i18nConfig[j].code = localeChoice}}

ProgressEntries(crowdinCode) ==
    {progressData[i] : i \in {j \in 1..Len(progressData) :
                                 progressData[j].languageId = crowdinCode}}

Records(names) == {names[i] : i \in 1..Len(names)}

PositionIn(list, localeChoice) ==
    CHOOSE i \in 1..Len(list) : list[i] = localeChoice

\* C1: a locale whose crowdinCode matches a progress entry gets that entry's
\* approvalProgress, whatever the value (0 included) and also when the locale
\* is the default locale.
C1_EntryValueWins ==
    \A r \in Records(displayNames) :
        \A c \in ConfigEntries(r.localeChoice) :
            \A p \in ProgressEntries(c.crowdinCode) :
                r.approvalProgress = p.approvalProgress

\* C8: when no progress entry matches the locale's crowdinCode, the record's
\* approvalProgress is 100 for the default locale and 0 for any other.
C8_NoEntryDefault ==
    \A r \in Records(displayNames) :
        \A c \in ConfigEntries(r.localeChoice) :
            ProgressEntries(c.crowdinCode) = {} =>
                r.approvalProgress =
                    IF r.localeChoice = DEFAULT_LOCALE THEN 100 ELSE 0

C8_Witness ==
    /\ status = "rendered"
    /\ \E r, q \in Records(displayNames) :
        /\ r.localeChoice = DEFAULT_LOCALE /\ r.approvalProgress = 100
        /\ q.localeChoice # DEFAULT_LOCALE /\ q.approvalProgress = 0
        /\ \A c \in ConfigEntries(r.localeChoice) \cup ConfigEntries(q.localeChoice) :
            ProgressEntries(c.crowdinCode) = {}

\* What the sources of a name say for localeChoice under the active locale
TranslationOf(localeChoice) ==
    t(locale, LanguagePrefix \o toLowerCase(localeChoice))
HasTranslation(localeChoice) ==
    TranslationOf(localeChoice) # LanguagePrefix \o toLowerCase(localeChoice)
PlatformKnows(viewer, localeChoice) ==
    /\ DisplayNamesOf(viewer, localeChoice) # Undefined
    /\ DisplayNamesOf(viewer, localeChoice) # localeChoice

\* The source and the target the stated precedence gives: translated string,
\* else platform name, else configured English name; configured native name,
\* else platform autonym
NamedSource(localeChoice, c) ==
    IF HasTranslation(localeChoice) THEN TranslationOf(localeChoice)
    ELSE IF PlatformKnows(locale, localeChoice)
    THEN DisplayNamesOf(locale, localeChoice)
    ELSE c.name
NamedTarget(localeChoice, c) ==
    IF ~Falsy(c.localName) THEN c.localName
    ELSE DisplayNamesOf(localeChoice, localeChoice)

\* C2: a render raises only when the locale has no configuration entry, or
\* when the translated, platform-provided and configured names leave the
\* source or the target without a name; with a configured name and the
\* platform returning null or the code unchanged, the record is produced.
C2_RaisesOnlyWithoutNames ==
    status = "error" =>
        LET a == attempts[Len(attempts)]
        IN  \/ a.error = "config" /\ ConfigEntries(a.localeChoice) = {}
            \/ /\ a.error = "name"
               /\ \E c \in ConfigEntries(a.localeChoice) :
                    \/ Falsy(NamedSource(a.localeChoice, c))
                    \/ Falsy(NamedTarget(a.localeChoice, c))

C4_SourcePrecedence ==
    \A i \in 1..Len(attempts) :
        \A c \in ConfigEntries(attempts[i].localeChoice) :
            ~Falsy(c.name) =>
                attempts[i].source = NamedSource(attempts[i].localeChoice, c)

\* C5: the ranked list is a permutation of the resolved records, sorted
\* non-increasing by approvalProgress, and records with equal approvalProgress
\* keep the order their codes have in the supported-locales list.
C5_StableRanking ==
    status = "rendered" =>
        /\ Len(displayNames) = Len(attempts)
        /\ \A i \in 1..Len(attempts) :
            \E j \in 1..Len(displayNames) : displayNames[j] = Record(attempts[i])
        /\ \A i, j \in 1..Len(displayNames) :
            i < j =>
                /\ displayNames[i].approvalProgress >= displayNames[j].approvalProgress
                /\ displayNames[i].approvalProgress = displayNames[j].approvalProgress
                    => PositionIn(locales, displayNames[i].localeChoice)
                        < PositionIn(locales, displayNames[j].localeChoice)

C5_Witness ==
    /\ status = "rendered"
    /\ Len(displayNames) = 3
    /\ displayNames[1].approvalProgress > displayNames[2].approvalProgress
    /\ displayNames[2].approvalProgress = displayNames[3].approvalProgress
    /\ displayNames[1].localeChoice = locales[3]

-----------------------------------------------------------------------------
(* Properties of the filter and the dropdown *)

\* s contains f when letter case is ignored
ContainsIgnoringCase(s, f) ==
    \E a \in 0..Len(s) :
        /\ a + Len(f) <= Len(s)
        /\ \A k \in 1..Len(f) : LowerChar(s[a + k]) = LowerChar(f[k])

\* The positions of the ranked list whose record matches the filter text
Matching ==
    {i \in 1..Len(displayNames) :
        ContainsIgnoringCase(displayNames[i].localeChoice
                                \o displayNames[i].source
                                \o displayNames[i].target, filterValue)}

Kth(S, k) == CHOOSE i \in S : Cardinality({j \in S : j <= i}) = k

\* C6: the filtered list is the subsequence of the ranked list, in ranked
\* order, of the records whose lowercased localeChoice + source + target
\* contains the lowercased filter text; with the empty text it is the whole
\* ranked list.
C6_FilteredSubsequence ==
    status = "rendered" =>
        /\ Len(filteredNames) = Cardinality(Matching)
        /\ \A k \in 1..Len(filteredNames) :
            filteredNames[k] = displayNames[Kth(Matching, k)]
        /\ filterValue = <<>> => filteredNames = displayNames

C6_Witness ==
    /\ status = "rendered"
    /\ isOpen
    /\ \E k \in 1..Len(filterValue) : filterValue[k] = "S"
    /\ Len(displayNames) = 3
    /\ Len(filteredNames) = 1
    /\ filteredNames[1] = displayNames[2]

\* C7: activating the first item, by a click on it or by Enter in the filter
\* input, navigates to (asPath, L) with L the highest-ranked record matching
\* the current filter text, and closes once: handleClose alone when the
\* caller passed it, the Menu's onClose alone otherwise.
C7_FirstItemActivation ==
    [][(lastEvent' = "enter" \/ ItemClick(1)) /\ Matching # {} =>
        /\ calls'.navigate =
            << <<asPath, displayNames[Kth(Matching, 1)].localeChoice>> >>
        /\ locale' = displayNames[Kth(Matching, 1)].localeChoice
        /\ calls'.handleClose + calls'.onClose = 1
        /\ handleClose => calls'.handleClose = 1 /\ calls'.onClose = 0
        /\ ~handleClose => calls'.onClose = 1 /\ ~isOpen']_vars

C7_Witness ==
    /\ lastEvent = "enter"
    /\ Len(calls.navigate) = 1
    /\ calls.navigate[1][2] # DEFAULT_LOCALE
    /\ DEFAULT_LOCALE \in {locales[i] : i \in 1..Len(locales)}
    /\ filterValue # <<>>
    /\ calls.handleClose = 1
    /\ calls.onClose = 0

\* C9: the dropdown starts closed; a change of the filter text while open
\* re-filters the list and leaves the dropdown open; it opens only when
\* opened from outside, and it goes from open to closed only through an item
\* activation or an outside dismissal, never through the Menu's handling of
\* a selection.
C9_Dropdown ==
    /\ ~isOpen
    /\ [][/\ lastEvent' = "change" =>
                /\ isOpen /\ isOpen'
                /\ filterValue' # filterValue
                /\ Len(filteredNames') = Cardinality(Matching')
          /\ (~isOpen /\ isOpen') => lastEvent' = "open"
          /\ (isOpen /\ ~isOpen') => lastEvent' \in {"click", "enter", "dismiss"}
          /\ lastEvent' = "select" => isOpen' = isOpen]_vars

C9_Witness ==
    /\ lastEvent = "select"
    /\ isOpen
    /\ filterValue # <<>>

\* C10: when no record matches the filter text, Enter and ArrowDown in the
\* filter input call nothing and move nothing: no navigation, no close, the
\* dropdown stays open, and focus, filter text and active locale stay.
C10_NoMatchNoEffect ==
    [][(lastEvent' \in {"enter", "arrowDown"} /\ Matching = {}) =>
        /\ calls' = NoCalls
        /\ isOpen /\ isOpen'
        /\ focus' = focus
        /\ filterValue' = filterValue
        /\ locale' = locale
        /\ firstItemRef' = firstItemRef]_vars

C10_Witness ==
    /\ lastEvent \in {"enter", "arrowDown"}
    /\ isOpen
    /\ displayNames # <<>>
    /\ filteredNames = <<>>
    /\ calls = NoCalls
    /\ focus = "input"

====
